---- MODULE Spec2Model ----
(***************************************************************************)
(* mp4san: the top-level box scanner, the layout planner and the chunk     *)
(* offset rewriter of sanitize_async (mp4san/src/lib.rs).                  *)
(*                                                                         *)
(* The input stream is read box by box.  A box is a record                 *)
(*   type   : the FourCC ("ftyp", "moov", "mdat", "free", "uuid", "skip")  *)
(*   enc    : the size encoding: "u32", "ext" (64-bit) or "eof"            *)
(*   body   : the number of data bytes the header declares (for "eof":     *)
(*            the bytes left in the stream after the header)               *)
(*   past   : "no"   the body lies inside the stream                       *)
(*            "seek" the body runs past the end of the stream and the      *)
(*                   source lets skip go there (a Seek source)             *)
(*            "eof"  the body runs past the end and the source's skip      *)
(*                   answers UnexpectedEof                                 *)
(*   major, brands : the ftyp body;  traks : the moov body, one record     *)
(*            [kind, entries] per trak (its stco or co64 table)            *)
(*   ok     : whether the body of an ftyp/moov parses                      *)
(*                                                                         *)
(* Integer widths are scaled: a u32 has W32 bits and a u64 has W64 bits,   *)
(* so that the boundaries u32::MAX, i32::MAX and u64::MAX are numbers the  *)
(* model checker can reach.  Byte lengths of headers and tables are the    *)
(* real ones.                                                              *)
(***************************************************************************)
EXTENDS Integers, Sequences, FiniteSets, TLC

VARIABLES
    pass,    \* 1: sanitize(X); 2: sanitize of the first call's output
    queue,   \* pass 2: the boxes of the input not yet read
    hist,    \* the boxes whose header was read so far, with their start_pos
    ended,   \* the stream is known to hold no further box
    pos,     \* the logical stream position
    ftyp,    \* Option<Mp4Box<FtypBox>>
    moov,    \* Option<Mp4Box<MoovBox>>
    data,    \* Option<InputSpan>
    pc,      \* "scan", "failed" (Err from inside the loop), "done" (returned
             \* after the loop)
    result,  \* what the call returned
    first,   \* what the first call returned
    cursor,  \* a Seek source used through the Skip adaptor, and its last call
    array,   \* a byte buffer, the array parsed from it and the bytes put back
    reader   \* a BufReader over a Seek source, and its last call

\* the state of a call of sanitize
scanner == <<pass, queue, hist, ended, pos, ftyp, moov, data, pc, result, first>>

\* the state of the parts that are exercised on their own
parts == <<cursor, array, reader>>

vars == <<scanner, parts>>

\* ------------------------------------------------------------ bounds
W32 == 11
W64 == 14
MaxBoxes == 4

U32_MAX == 2^W32 - 1
I32_MAX == 2^(W32 - 1) - 1
U64_MAX == 2^W64 - 1
I64_MAX == 2^(W64 - 1) - 1

\* ------------------------------------------------------------ constants
COMPATIBLE_BRAND == "isom"

\* MAX_READ_BOX_SIZE that caps nothing
MAX_READ_BOX_SIZE_Unbounded == 2^W64 - 1

\* 200 MiB, scaled by the same factor as u32 (2^32 -> 2^W32)
MAX_READ_BOX_SIZE == (200 * 1024 * 1024) \div 2^(32 - W32)

PAD_HEADER_SIZE == 8

MAX_PAD_SIZE == U32_MAX - PAD_HEADER_SIZE

\* ------------------------------------------------------------ boxes
HdrLen(enc) == IF enc = "ext" THEN 16 ELSE 8

NoBox ==
    [type |-> "none", enc |-> "u32", body |-> 0, past |-> "no",
     major |-> "none", brands |-> <<>>, traks |-> <<>>, ok |-> TRUE]

Stco(entries) == [kind |-> "stco", entries |-> entries]

Co64(entries) == [kind |-> "co64", entries |-> entries]

EntryLen(kind) == IF kind = "co64" THEN 8 ELSE 4

EntryMax(kind) == IF kind = "co64" THEN U64_MAX ELSE U32_MAX

\* trak > mdia > minf > stbl > stco|co64: four 8-byte container headers, then
\* the table's header (8), version and flags (4), entry count (4), entries
TrakLen(t) == 32 + 16 + EntryLen(t.kind) * Len(t.entries)

RECURSIVE MoovBodyLen(_)
MoovBodyLen(traks) ==
    IF traks = <<>> THEN 0 ELSE TrakLen(Head(traks)) + MoovBodyLen(Tail(traks))

\* major_brand (4), minor_version (4), compatible_brands (4 each)
FtypBodyLen(brands) == 8 + 4 * Len(brands)

Ftyp(enc, major, brands) ==
    [type |-> "ftyp", enc |-> enc, body |-> FtypBodyLen(brands), past |-> "no",
     major |-> major, brands |-> brands, traks |-> <<>>, ok |-> TRUE]

Moov(enc, traks) ==
    [type |-> "moov", enc |-> enc, body |-> MoovBodyLen(traks), past |-> "no",
     major |-> "none", brands |-> <<>>, traks |-> traks, ok |-> TRUE]

Opaque(type, enc, body, past) ==
    [type |-> type, enc |-> enc, body |-> body, past |-> past,
     major |-> "none", brands |-> <<>>, traks |-> <<>>, ok |-> TRUE]

EncodedLen(b) == HdrLen(b.enc) + b.body

\* ------------------------------------------------------------ the input
\* The boxes the stream may hold next when the reader stands at `start`.
FtypChoices ==
    { Ftyp("u32", "isom", <<"isom">>),
      Ftyp("ext", "mp42", <<"mp42", "isom">>),
      Ftyp("u32", "isom", <<"mp42">>),
      Ftyp("eof", "isom", <<"isom">>),
      [Ftyp("u32", "isom", <<>>) EXCEPT !.body = 4, !.ok = FALSE] }

MoovChoices ==
    { Moov("u32", <<Stco(<<20>>)>>),
      Moov("u32", <<Stco(<<97>>)>>),
      Moov("ext", <<Co64(<<84>>)>>),
      Moov("eof", <<Stco(<<1>>)>>),
      Moov("u32", <<Co64(<<20, U64_MAX>>)>>),
      Moov("u32", <<Stco(<<20, U32_MAX>>)>>),
      Moov("u32", <<Stco(<<>>), Stco(<<20>>)>>),
      Moov("u32", <<Stco(<<20>>), Co64(<<20>>)>>),
      [Moov("u32", <<Stco(<<20>>)>>) EXCEPT !.body = I32_MAX + 1],
      [Moov("u32", <<>>) EXCEPT !.body = 4, !.ok = FALSE] }

\* The extended sizes are chosen against u64::MAX: a box that ends at it, one
\* that ends one byte past it, one of the largest size a header can declare,
\* and one that leaves room for a 60-byte moov before u64::MAX.
MdatChoices(start) ==
    { Opaque("mdat", "u32", 7, "no"),
      Opaque("mdat", "ext", 0, "no"),
      Opaque("mdat", "eof", 7, "no"),
      Opaque("mdat", "u32", 7, "seek"),
      Opaque("mdat", "u32", 7, "eof"),
      Opaque("mdat", "ext", U64_MAX - start - 16, "seek"),
      Opaque("mdat", "ext", U64_MAX - start - 15, "seek"),
      Opaque("mdat", "ext", U64_MAX - 16, "seek"),
      Opaque("mdat", "ext", U64_MAX - start - 16 - 60, "no") }

FreeChoices ==
    { Opaque("free", "u32", 0, "no"),
      Opaque("free", "u32", 55, "no"),
      Opaque("free", "eof", 3, "no"),
      Opaque("free", "ext", U32_MAX, "no") }

OtherChoices ==
    { Opaque("uuid", "u32", 0, "no"),
      Opaque("uuid", "u32", 9, "eof"),
      Opaque("skip", "ext", U64_MAX - 16, "seek") }

Palette(start) ==
    FtypChoices \cup MoovChoices \cup MdatChoices(start) \cup FreeChoices
        \cup OtherChoices

\* ------------------------------------------------------------ results
NoErr == [kind |-> "none", detail |-> "none"]

Err(kind, detail) == [kind |-> kind, detail |-> detail]

NoSpan == [set |-> FALSE, offset |-> 0, len |-> 0]

Span(offset, len) == [set |-> TRUE, offset |-> offset, len |-> len]

NoMeta == [ftyp |-> NoBox, moov |-> NoBox, pad |-> 0]

NoResult == [status |-> "none", err |-> NoErr, meta |-> NoMeta, data |-> NoSpan]

Failure(e) == [status |-> "err", err |-> e, meta |-> NoMeta, data |-> NoSpan]

Success(meta, d) == [status |-> "ok", err |-> NoErr, meta |-> meta, data |-> d]

\* a Seek source at pos in a stream of len bytes, with the last call made on
\* it: the operation, its argument, the position it started from, the seek it
\* issued, the error and the value it returned
Cursor(p, len) ==
    [pos |-> p, len |-> len, op |-> "none", amount |-> 0, from |-> 0,
     seek |-> "none", err |-> "none", ret |-> 0]

NoCursor == Cursor(0, 0)

\* a buffer of bytes to parse as an array of entries of size bytes, and what
\* became of it: the kind of array parsed, the outcome of the parse, the
\* bytes emitted by put_buf, and the last entry set
Buffer(bytes, size) ==
    [input |-> bytes, size |-> size, kind |-> "none",
     parsed |-> [err |-> "none", entry_count |-> 0, entries |-> <<>>,
                 rest |-> bytes],
     out |-> <<>>, emitted |-> FALSE, set |-> 0, value |-> 0]

NoArray == Buffer(<<>>, 4)

\* a BufReader over a source of len bytes: the source's position, the number
\* of bytes in the buffer, and the last call: its amount, the logical position
\* and the buffered bytes before it, its error and what it returned
Reader(len) ==
    [src |-> 0, buf |-> 0, len |-> len, op |-> "none", amount |-> 0,
     from |-> 0, held |-> 0, err |-> "none", ret |-> 0]

NoReader == Reader(0)

NoRead == [box |-> NoBox, start |-> 0, hadFtyp |-> FALSE]

\* the length in bytes of the emitted metadata
MetaLen(meta) == EncodedLen(meta.ftyp) + EncodedLen(meta.moov) + meta.pad

\* ------------------------------------------------------------ arithmetic
None == 0 - 1

\* a + b in a u64 of a release build: wraps modulo 2^64
Add64(a, b) == (a + b) % (U64_MAX + 1)

\* util::checked_add_signed on an entry of width max: None when the sum is
\* negative or does not fit
CheckedAddSigned(x, d, max) ==
    IF x + d < 0 \/ x + d > max THEN None ELSE x + d

\* ------------------------------------------------------------ Skip for Seek
\* io::Seek::seek(SeekFrom::Current(n)) of a cursor at p: the new position, or
\* None when it overflows
SeekCurrent(p, n) == IF p + n > U64_MAX THEN None ELSE p + n

\* SeekSkip that adds without a check
SeekSkip_Unchecked(p, amount) == (p + amount) % (U64_MAX + 1)

\* impl Skip for T: Seek, skip(amount) with the cursor at p: the new position,
\* or None for an io::Error
SeekSkip(p, amount) ==
    IF amount = 0 THEN p
    ELSE IF amount <= I64_MAX THEN SeekCurrent(p, amount)
    ELSE IF p + amount > U64_MAX THEN None
    ELSE p + amount

\* the seek that skip(amount) issues: none, a relative one, or an absolute one
\* for an amount that is no i64
SkipSeek(amount) ==
    IF amount = 0 THEN "none"
    ELSE IF amount <= I64_MAX THEN "current"
    ELSE "start"

\* the error of a skip(amount) that fails: the error of the relative seek
\* itself, or InvalidData (seek past u64::MAX) from checked_add
SkipErr(amount) == IF amount <= I64_MAX THEN "Seek" ELSE "InvalidData"

\* StreamLenSeeks that leaves the cursor at the end
StreamLenSeeks_NoRestore(p, len) == [ret |-> len, pos |-> len]

\* impl Skip for T: Seek, stream_len() with the cursor at p: the value
\* returned and the position after seek(End(0)) and the seek back
StreamLenSeeks(p, len) ==
    [ret |-> len, pos |-> IF p # len THEN p ELSE len]

\* ------------------------------------------------------------ arrays
\* C::ENCODED_LEN of the count prefix of a BoundedArray<u32, T>
COUNT_LEN == 4

\* Mp4Prim::parse of an unsigned integer: its bytes, big-endian
RECURSIVE Decode(_)
Decode(bytes) ==
    IF bytes = <<>> THEN 0
    ELSE Decode(SubSeq(bytes, 1, Len(bytes) - 1)) * 256 + bytes[Len(bytes)]

\* Mp4Prim::put_buf of an unsigned integer of n bytes
Encode(v, n) == [i \in 1..n |-> (v \div 256^(n - i)) % 256]

\* the outcome of a parse: the error, the count read, the bytes the array
\* keeps and the bytes left in the buffer
Parsed(err, entry_count, entries, rest) ==
    [err |-> err, entry_count |-> entry_count, entries |-> entries,
     rest |-> rest]

\* UnboundedArray::parse: buf.split() takes every byte that remains
UnboundedParse(buf, size) == Parsed("none", 0, buf, <<>>)

\* BoundedArray::parse with T::ENCODED_LEN = size: the count, the checked
\* product, the comparison with buf.remaining() as u32, and split_to
BoundedParse(buf, size) ==
    IF Len(buf) < COUNT_LEN THEN Parsed("TruncatedBox", 0, <<>>, buf)
    ELSE
    LET entry_count == Decode(SubSeq(buf, 1, COUNT_LEN))
        rem == SubSeq(buf, COUNT_LEN + 1, Len(buf))
        entries_len == size * entry_count
    IN  IF entries_len > U32_MAX
        THEN Parsed("InvalidInput", entry_count, <<>>, rem)
        ELSE IF Len(rem) % (U32_MAX + 1) < entries_len
        THEN Parsed("TruncatedBox", entry_count, <<>>, rem)
        ELSE Parsed("none", entry_count, SubSeq(rem, 1, entries_len),
                    SubSeq(rem, entries_len + 1, Len(rem)))

\* UnboundedArray::entry_count
EntryCount(entries, size) == Len(entries) \div size

\* UnboundedArray::entries: chunks_exact(T::ENCODED_LEN)
Chunks(entries, size) ==
    [k \in 1..(Len(entries) \div size) |->
        SubSeq(entries, (k - 1) * size + 1, k * size)]

\* ArrayEntry::get of the k-th entry
EntryGet(entries, size, k) == Decode(Chunks(entries, size)[k])

\* EntrySet that writes every entry at the start of the array
EntrySet_AtStart(entries, size, k, v) ==
    [i \in 1..Len(entries) |->
        IF i <= size THEN Encode(v, size)[i] ELSE entries[i]]

\* ArrayEntryMut::set on the k-th chunk of chunks_exact_mut: the backing bytes
EntrySet(entries, size, k, v) ==
    [i \in 1..Len(entries) |->
        IF (k - 1) * size < i /\ i <= k * size
        THEN Encode(v, size)[i - (k - 1) * size]
        ELSE entries[i]]

\* UnboundedArray::encoded_len and BoundedArray::encoded_len
ArrayEncodedLen(kind, entries) ==
    (IF kind = "bounded" THEN COUNT_LEN ELSE 0) + Len(entries)

\* UnboundedArray::put_buf and BoundedArray::put_buf
ArrayPutBuf(kind, entry_count, entries) ==
    (IF kind = "bounded" THEN Encode(entry_count, COUNT_LEN) ELSE <<>>)
        \o entries

\* ------------------------------------------------------------ skip_box
\* BoxHeader::box_data_size: None for an until-EOF header
BoxDataSize(b) == IF b.enc = "eof" THEN None ELSE b.body

\* the length of the stream that holds the until-EOF box b at start
StreamLen(b, start) == start + HdrLen(b.enc) + b.body

\* SkipBox that measures an until-EOF body from the start of the box
SkipBox_FromStart(b, start) ==
    LET after == start + HdrLen(b.enc)
        box_data_size ==
            IF BoxDataSize(b) # None THEN BoxDataSize(b)
            ELSE StreamLen(b, start) - start
        to == SeekSkip(after, box_data_size)
    IN  IF b.past = "eof"
        THEN [err |-> Err("TruncatedBox", b.type), size |-> 0, to |-> after]
        ELSE IF to = None
        THEN [err |-> Err("Io", "seek past u64::MAX"), size |-> 0, to |-> after]
        ELSE [err |-> NoErr, size |-> box_data_size, to |-> to]

\* SkipBox that seeks to the data size counted from the start of the stream
SkipBox_FromOrigin(b, start) ==
    LET after == start + HdrLen(b.enc)
        box_data_size ==
            IF BoxDataSize(b) # None THEN BoxDataSize(b)
            ELSE StreamLen(b, start) - after
        to == SeekSkip(0, box_data_size)
    IN  IF b.past = "eof"
        THEN [err |-> Err("TruncatedBox", b.type), size |-> 0, to |-> after]
        ELSE IF to = None
        THEN [err |-> Err("Io", "seek past u64::MAX"), size |-> 0, to |-> after]
        ELSE [err |-> NoErr, size |-> box_data_size, to |-> to]

\* skip_box with the reader just after b's header: the data size skipped, the
\* position reached and the error, if any.  The buffered bytes are consumed
\* first and the rest is skipped on the source, so the source's cursor ends at
\* the logical position after + amount.
SkipBox(b, start) ==
    LET after == start + HdrLen(b.enc)
        box_data_size ==
            IF BoxDataSize(b) # None THEN BoxDataSize(b)
            ELSE StreamLen(b, start) - after
        to == SeekSkip(after, box_data_size)
    IN  IF b.past = "eof"
        THEN [err |-> Err("TruncatedBox", b.type), size |-> 0, to |-> after]
        ELSE IF to = None
        THEN [err |-> Err("Io", "seek past u64::MAX"), size |-> 0, to |-> after]
        ELSE [err |-> NoErr, size |-> box_data_size, to |-> to]

\* Mp4Box::read_data followed by data.parse(): the body is read into memory
\* unless it is larger than MAX_READ_BOX_SIZE or the stream ends before it
ReadData(b) ==
    IF b.body > MAX_READ_BOX_SIZE THEN Err("InvalidInput", "BoxDataTooLarge")
    ELSE IF b.past # "no" THEN Err("TruncatedBox", b.type)
    ELSE IF ~b.ok THEN Err("InvalidInput", b.type)
    ELSE NoErr

\* ------------------------------------------------------------ dispatch
\* Dispatch with the mdat and moov arms placed before the ftyp guard
Dispatch_GuardLast(type, hasFtyp) ==
    IF type = "free" THEN "free"
    ELSE IF type = "ftyp" THEN "ftyp"
    ELSE IF type = "mdat" THEN "mdat"
    ELSE IF type = "moov" THEN "moov"
    ELSE IF ~hasFtyp THEN "noftyp"
    ELSE "other"

\* the arm of `match header.box_type()` that takes a box of this type
Dispatch(type, hasFtyp) ==
    IF type = "free" THEN "free"
    ELSE IF type = "ftyp" THEN "ftyp"
    ELSE IF ~hasFtyp THEN "noftyp"
    ELSE IF type = "mdat" THEN "mdat"
    ELSE IF type = "moov" THEN "moov"
    ELSE "other"

\* FtypArm that reads and parses the box before it looks for a stored ftyp
FtypArm_ReadFirst(cur, b) ==
    IF ReadData(b) # NoErr THEN ReadData(b)
    ELSE IF cur.type # "none"
    THEN Err("InvalidBoxLayout", "MultipleBoxes(ftyp)")
    ELSE NoErr

\* the ftyp arm: the error it returns, or NoErr when the box is stored
FtypArm(cur, b) ==
    IF cur.type # "none" THEN Err("InvalidBoxLayout", "MultipleBoxes(ftyp)")
    ELSE ReadData(b)

\* MoovArm that keeps the moov stored first
MoovArm_KeepFirst(cur, b) == IF cur.type # "none" THEN cur ELSE b

\* the moov arm: the moov stored once b has been read and parsed
MoovArm(cur, b) == b

\* OtherArm that returns without skipping the box
OtherArm_NoSkip(b, start) == Err("UnsupportedBox", b.type)

\* the last arm: the error it returns for a box of another type
OtherArm(b, start) ==
    IF SkipBox(b, start).err # NoErr THEN SkipBox(b, start).err
    ELSE Err("UnsupportedBox", b.type)

\* ExtendOnFree that absorbs every free box once a span exists
ExtendOnFree_Always(d, start_pos, box_size) ==
    IF d.set THEN [d EXCEPT !.len = Add64(d.len, box_size)] ELSE d

\* the free arm's update of the accumulated span
ExtendOnFree(d, start_pos, box_size) ==
    IF d.set /\ Add64(d.offset, d.len) = start_pos
    THEN [d EXCEPT !.len = Add64(d.len, box_size)]
    ELSE d

\* MdatContiguous with the check left out
MdatContiguous_Unchecked(d, start_pos) == TRUE

\* the mdat arm's contiguity check
MdatContiguous(d, start_pos) ==
    ~d.set \/ Add64(d.offset, d.len) = start_pos

\* ExtendOnMdat that starts a new span at every mdat
ExtendOnMdat_Restart(d, start_pos, box_size) == Span(start_pos, box_size)

\* the mdat arm's update of the accumulated span
ExtendOnMdat(d, start_pos, box_size) ==
    IF d.set THEN [d EXCEPT !.len = Add64(d.len, box_size)]
    ELSE Span(start_pos, box_size)

\* ------------------------------------------------------------ planner
\* Mp4Box::with_data: the header is rebuilt with an explicit size
WithData(b) ==
    [b EXCEPT !.enc = IF 8 + b.body <= U32_MAX THEN "u32" ELSE "ext"]

\* HasCompatibleBrand that looks at the major brand
HasCompatibleBrand_Major(f) == f.major = COMPATIBLE_BRAND

HasCompatibleBrand(f) ==
    \E i \in 1..Len(f.brands) : f.brands[i] = COMPATIBLE_BRAND

\* PostChecks that looks for the payload before the moov
PostChecks_MdatFirst(f, m, d) ==
    IF f.type = "none" THEN Err("MissingRequiredBox", "ftyp")
    ELSE IF ~HasCompatibleBrand(f) THEN Err("UnsupportedFormat", f.major)
    ELSE IF ~d.set THEN Err("MissingRequiredBox", "mdat")
    ELSE IF m.type = "none" THEN Err("MissingRequiredBox", "moov")
    ELSE NoErr

\* the checks after the loop, in their order: the error, or NoErr
PostChecks(f, m, d) ==
    IF f.type = "none" THEN Err("MissingRequiredBox", "ftyp")
    ELSE IF ~HasCompatibleBrand(f) THEN Err("UnsupportedFormat", f.major)
    ELSE IF m.type = "none" THEN Err("MissingRequiredBox", "moov")
    ELSE IF ~d.set THEN Err("MissingRequiredBox", "mdat")
    ELSE NoErr

\* Plan without the padding arm
Plan_NoPad(offset, metadata_len) ==
    IF offset = metadata_len THEN "equal" ELSE "displace"

\* data.offset.checked_sub(metadata_len) matched against Some(0) and
\* Some(PAD_HEADER_SIZE..=MAX_PAD_SIZE)
Plan(offset, metadata_len) ==
    IF offset = metadata_len THEN "equal"
    ELSE IF offset > metadata_len
            /\ offset - metadata_len >= PAD_HEADER_SIZE
            /\ offset - metadata_len <= MAX_PAD_SIZE
    THEN "pad"
    ELSE "displace"

\* PadSize that counts the padding's own header on top of the gap
PadSize_PlusHeader(offset, metadata_len) ==
    IF Plan(offset, metadata_len) = "pad"
    THEN offset - metadata_len + PAD_HEADER_SIZE
    ELSE 0

\* PadSize that leaves the padding's own header out of the count
PadSize_LessHeader(offset, metadata_len) ==
    IF Plan(offset, metadata_len) = "pad"
    THEN offset - metadata_len - PAD_HEADER_SIZE
    ELSE 0

\* pad_size: the gap when the second arm matches, and 0 otherwise
PadSize(offset, metadata_len) ==
    IF Plan(offset, metadata_len) = "pad" THEN offset - metadata_len ELSE 0

\* MdatDisplacement with the operands of the forward case exchanged
MdatDisplacement_Exchanged(offset, metadata_len) ==
    IF offset >= metadata_len
    THEN IF offset - metadata_len <= I32_MAX
         THEN [ok |-> TRUE, d |-> 0 - (offset - metadata_len)]
         ELSE [ok |-> FALSE, d |-> 0]
    ELSE IF metadata_len - offset <= I32_MAX
         THEN [ok |-> TRUE, d |-> offset - metadata_len]
         ELSE [ok |-> FALSE, d |-> 0]

\* MdatDisplacement without the conversion to i32
MdatDisplacement_Unchecked(offset, metadata_len) ==
    [ok |-> TRUE, d |-> metadata_len - offset]

\* MdatDisplacement without the negation of a backward displacement
MdatDisplacement_NotNegated(offset, metadata_len) ==
    IF offset >= metadata_len
    THEN IF offset - metadata_len <= I32_MAX
         THEN [ok |-> TRUE, d |-> offset - metadata_len]
         ELSE [ok |-> FALSE, d |-> 0]
    ELSE IF metadata_len - offset <= I32_MAX
         THEN [ok |-> TRUE, d |-> metadata_len - offset]
         ELSE [ok |-> FALSE, d |-> 0]

\* the signed displacement of the third arm: [ok, d]
MdatDisplacement(offset, metadata_len) ==
    IF offset >= metadata_len
    THEN IF offset - metadata_len <= I32_MAX
         THEN [ok |-> TRUE, d |-> 0 - (offset - metadata_len)]
         ELSE [ok |-> FALSE, d |-> 0]
    ELSE IF metadata_len - offset <= I32_MAX
         THEN [ok |-> TRUE, d |-> metadata_len - offset]
         ELSE [ok |-> FALSE, d |-> 0]

\* RewriteTrak that checks every entry against the width of a co64 entry
RewriteTrak_Wide(t, d) ==
    [t EXCEPT !.entries =
        [i \in 1..Len(t.entries) |->
            CheckedAddSigned(t.entries[i], d, U64_MAX)]]

\* RewriteTrak that rewrites stco tables only
RewriteTrak_StcoOnly(t, d) ==
    IF t.kind = "co64" THEN t
    ELSE [t EXCEPT !.entries =
            [i \in 1..Len(t.entries) |->
                CheckedAddSigned(t.entries[i], d, EntryMax(t.kind))]]

\* the rewriting loop over one table
RewriteTrak(t, d) ==
    [t EXCEPT !.entries =
        [i \in 1..Len(t.entries) |->
            CheckedAddSigned(t.entries[i], d, EntryMax(t.kind))]]

RewriteTraks(traks, d) == [i \in 1..Len(traks) |-> RewriteTrak(traks[i], d)]

RewriteFailed(traks) ==
    \E i \in 1..Len(traks) :
        \E j \in 1..Len(traks[i].entries) : traks[i].entries[j] = None

\* Sanitized that emits the stored boxes under the headers they were read with
Sanitized_KeepHeaders(f, m, d) ==
    IF PostChecks(f, m, d) # NoErr THEN Failure(PostChecks(f, m, d))
    ELSE
    LET metadata_len == EncodedLen(f) + EncodedLen(m)
        plan == Plan(d.offset, metadata_len)
        disp == MdatDisplacement(d.offset, metadata_len)
        traks2 == RewriteTraks(m.traks, disp.d)
    IN  IF plan # "displace"
        THEN Success([ftyp |-> f, moov |-> m,
                      pad |-> PadSize(d.offset, metadata_len)], d)
        ELSE IF ~disp.ok
        THEN Failure(Err("UnsupportedBoxLayout", "mdat displaced too far"))
        ELSE IF RewriteFailed(traks2)
        THEN Failure(Err("InvalidInput", "chunk offset not within mdat"))
        ELSE Success([ftyp |-> f, moov |-> [m EXCEPT !.traks = traks2],
                      pad |-> 0], d)

\* everything sanitize_async does after the loop
Sanitized(f, m, d) ==
    IF PostChecks(f, m, d) # NoErr THEN Failure(PostChecks(f, m, d))
    ELSE
    LET ftyp2 == WithData(f)
        moov2 == WithData(m)
        metadata_len == EncodedLen(ftyp2) + EncodedLen(moov2)
        plan == Plan(d.offset, metadata_len)
        disp == MdatDisplacement(d.offset, metadata_len)
        traks2 == RewriteTraks(moov2.traks, disp.d)
    IN  IF plan # "displace"
        THEN Success([ftyp |-> ftyp2, moov |-> moov2,
                      pad |-> PadSize(d.offset, metadata_len)], d)
        ELSE IF ~disp.ok
        THEN Failure(Err("UnsupportedBoxLayout", "mdat displaced too far"))
        ELSE IF RewriteFailed(traks2)
        THEN Failure(Err("InvalidInput", "chunk offset not within mdat"))
        ELSE Success([ftyp |-> ftyp2, moov |-> [moov2 EXCEPT !.traks = traks2],
                      pad |-> 0], d)

\* ------------------------------------------------------------ the emitter
\* PadBox whose header counts the header twice
PadBox_FullSize(pad_size) == Opaque("free", "u32", pad_size, "no")

\* the padding box the emitter appends: a free box of pad_size bytes in all
PadBox(pad_size) == Opaque("free", "u32", pad_size - PAD_HEADER_SIZE, "no")

\* the boxes of the emitted metadata, in the order they are written
MetadataBoxes(meta) ==
    <<meta.ftyp, meta.moov>>
        \o (IF meta.pad # 0 THEN <<PadBox(meta.pad)>> ELSE <<>>)

\* test::sanitized_data: the metadata followed by the input's bytes at data
SanitizedData(meta, payload) == MetadataBoxes(meta) \o payload

\* ------------------------------------------------------------ state machine
ScannerInit ==
    /\ pass = 1
    /\ queue = <<>>
    /\ hist = <<>>
    /\ ended = FALSE
    /\ pos = 0
    /\ ftyp = NoBox
    /\ moov = NoBox
    /\ data = NoSpan
    /\ pc = "scan"
    /\ result = NoResult
    /\ first = NoResult

Init ==
    /\ ScannerInit
    /\ cursor = NoCursor
    /\ array = NoArray
    /\ reader = NoReader

\* a box a stream can hold at start: its body has a length, and a body that
\* lies inside the stream ends at a position of the stream
Holds(b, start) ==
    /\ b.body >= 0
    /\ b.past = "no" => start + EncodedLen(b) <= U64_MAX

\* the boxes the stream may hold at the reader's position
Offered ==
    IF pass = 1
    THEN IF ended \/ Len(hist) >= MaxBoxes THEN {}
         ELSE { b \in Palette(pos) : Holds(b, pos) }
    ELSE IF queue = <<>> THEN {} ELSE {Head(queue)}

\* the header of b has been read at pos
Consume(b) ==
    /\ hist' = Append(hist, [box |-> b, start |-> pos,
                             hadFtyp |-> ftyp.type # "none"])
    /\ queue' = IF pass = 2 THEN Tail(queue) ELSE queue
    /\ UNCHANGED <<pass, first>>

\* sanitize returns Err(e) from inside the loop
Fail(e) ==
    /\ pc' = "failed"
    /\ result' = Failure(e)
    /\ UNCHANGED <<pos, ftyp, moov, data, ended>>

\* BoxHeader::read fails: the stream ends inside a header, or the size field
\* is malformed
HeaderError ==
    /\ UNCHANGED parts
    /\ pc = "scan"
    /\ pass = 1
    /\ ~ended
    /\ Len(hist) < MaxBoxes
    /\ \E kind \in {"TruncatedBox", "InvalidInput"} :
          Fail(Err(kind, "while parsing box header"))
    /\ UNCHANGED <<pass, queue, hist, first>>

ScanFree ==
    /\ UNCHANGED parts
    /\ pc = "scan"
    /\ \E b \in Offered :
        /\ Dispatch(b.type, ftyp.type # "none") = "free"
        /\ Consume(b)
        /\ LET r == SkipBox(b, pos)
               box_size == Add64(r.size, HdrLen(b.enc))
           IN  IF r.err # NoErr THEN Fail(r.err)
               ELSE /\ data' = ExtendOnFree(data, pos, box_size)
                    /\ pos' = r.to
                    /\ ended' = (b.enc = "eof" \/ b.past # "no")
                    /\ UNCHANGED <<ftyp, moov, pc, result>>

ScanFtyp ==
    /\ UNCHANGED parts
    /\ pc = "scan"
    /\ \E b \in Offered :
        /\ Dispatch(b.type, ftyp.type # "none") = "ftyp"
        /\ Consume(b)
        /\ IF FtypArm(ftyp, b) # NoErr THEN Fail(FtypArm(ftyp, b))
           ELSE /\ ftyp' = b
                /\ pos' = pos + EncodedLen(b)
                /\ ended' = (b.enc = "eof")
                /\ UNCHANGED <<moov, data, pc, result>>

ScanNoFtyp ==
    /\ UNCHANGED parts
    /\ pc = "scan"
    /\ \E b \in Offered :
        /\ Dispatch(b.type, ftyp.type # "none") = "noftyp"
        /\ Consume(b)
        /\ Fail(Err("InvalidBoxLayout", "ftyp is not the first significant box"))

ScanMdat ==
    /\ UNCHANGED parts
    /\ pc = "scan"
    /\ \E b \in Offered :
        /\ Dispatch(b.type, ftyp.type # "none") = "mdat"
        /\ Consume(b)
        /\ LET r == SkipBox(b, pos)
               box_size == Add64(r.size, HdrLen(b.enc))
           IN  IF r.err # NoErr THEN Fail(r.err)
               ELSE IF ~MdatContiguous(data, pos)
               THEN Fail(Err("UnsupportedBoxLayout", "discontiguous mdat boxes"))
               ELSE /\ data' = ExtendOnMdat(data, pos, box_size)
                    /\ pos' = r.to
                    /\ ended' = (b.enc = "eof" \/ b.past # "no")
                    /\ UNCHANGED <<ftyp, moov, pc, result>>

ScanMoov ==
    /\ UNCHANGED parts
    /\ pc = "scan"
    /\ \E b \in Offered :
        /\ Dispatch(b.type, ftyp.type # "none") = "moov"
        /\ Consume(b)
        /\ IF ReadData(b) # NoErr THEN Fail(ReadData(b))
           ELSE /\ moov' = MoovArm(moov, b)
                /\ pos' = pos + EncodedLen(b)
                /\ ended' = (b.enc = "eof")
                /\ UNCHANGED <<ftyp, data, pc, result>>

ScanOther ==
    /\ UNCHANGED parts
    /\ pc = "scan"
    /\ \E b \in Offered :
        /\ Dispatch(b.type, ftyp.type # "none") = "other"
        /\ Consume(b)
        /\ Fail(OtherArm(b, pos))

\* fill_buf returns an empty buffer: the loop ends and the layout is planned
Finish ==
    /\ UNCHANGED parts
    /\ pc = "scan"
    /\ pass = 1 \/ queue = <<>>
    /\ pc' = "done"
    /\ result' = Sanitized(ftyp, moov, data)
    /\ UNCHANGED <<pass, queue, hist, ended, pos, ftyp, moov, data, first>>

\* the boxes of the input that lie in the span d
RECURSIVE PayloadBoxes(_, _)
PayloadBoxes(h, d) ==
    IF h = <<>> THEN <<>>
    ELSE IF d.offset <= Head(h).start /\ Head(h).start < d.offset + d.len
    THEN <<Head(h).box>> \o PayloadBoxes(Tail(h), d)
    ELSE PayloadBoxes(Tail(h), d)

\* the tests' second call: sanitize(sanitized_data(sanitized, &data))
Resanitize ==
    /\ UNCHANGED parts
    /\ pc = "done"
    /\ pass = 1
    /\ result.status = "ok"
    /\ pass' = 2
    /\ first' = result
    /\ queue' = SanitizedData(result.meta, PayloadBoxes(hist, result.data))
    /\ hist' = <<>>
    /\ ended' = FALSE
    /\ pos' = 0
    /\ ftyp' = NoBox
    /\ moov' = NoBox
    /\ data' = NoSpan
    /\ pc' = "scan"
    /\ result' = NoResult

Next ==
    \/ HeaderError
    \/ ScanFree
    \/ ScanFtyp
    \/ ScanNoFtyp
    \/ ScanMdat
    \/ ScanMoov
    \/ ScanOther
    \/ Finish
    \/ Resanitize

Spec == Init /\ [][Next]_vars

\* one turn of the while loop of sanitize_async, or its exit
Iteration ==
    \/ HeaderError
    \/ ScanFree
    \/ ScanFtyp
    \/ ScanNoFtyp
    \/ ScanMdat
    \/ ScanMoov
    \/ ScanOther
    \/ Finish

\* one call of sanitize_async, whose future is polled until it returns
FairSpec == Init /\ [][Iteration]_vars /\ WF_vars(Iteration)

\* ------------------------------------------------------------ Skip adaptor
\* the lengths of the streams and the amounts skipped: none, a box header, the
\* largest i64 and the value after it, up to u64::MAX and one past it, and
\* u64::MAX itself
CursorLens == {0, 9}

SkipAmounts(p) ==
    { n \in {0, 8, I64_MAX, I64_MAX + 1, U64_MAX - p, U64_MAX - p + 1, U64_MAX} :
        n <= U64_MAX }

CursorInit ==
    /\ ScannerInit
    /\ array = NoArray
    /\ reader = NoReader
    /\ cursor \in { Cursor(0, len) : len \in CursorLens }

\* Skip::skip(amount)
CursorSkip ==
    /\ UNCHANGED <<scanner, array, reader>>
    /\ \E amount \in SkipAmounts(cursor.pos) :
          LET to == SeekSkip(cursor.pos, amount)
          IN  cursor' = [cursor EXCEPT
                  !.op = "skip",
                  !.amount = amount,
                  !.from = cursor.pos,
                  !.seek = SkipSeek(amount),
                  !.err = IF to = None THEN SkipErr(amount) ELSE "none",
                  !.ret = 0,
                  !.pos = IF to = None THEN cursor.pos ELSE to]

\* Skip::stream_position()
CursorStreamPosition ==
    /\ UNCHANGED <<scanner, array, reader>>
    /\ cursor' = [cursor EXCEPT
          !.op = "stream_position",
          !.amount = 0,
          !.from = cursor.pos,
          !.seek = "none",
          !.err = "none",
          !.ret = cursor.pos]

\* Skip::stream_len()
CursorStreamLen ==
    /\ UNCHANGED <<scanner, array, reader>>
    /\ LET r == StreamLenSeeks(cursor.pos, cursor.len)
       IN  cursor' = [cursor EXCEPT
               !.op = "stream_len",
               !.amount = 0,
               !.from = cursor.pos,
               !.seek = IF cursor.pos # cursor.len THEN "start" ELSE "end",
               !.err = "none",
               !.ret = r.ret,
               !.pos = r.pos]

CursorNext ==
    \/ CursorSkip
    \/ CursorStreamPosition
    \/ CursorStreamLen

CursorSpec == CursorInit /\ [][CursorNext]_vars

\* ------------------------------------------------------------ array buffers
\* T::ENCODED_LEN of the entry types tried: u16 and u32
EntrySizes == {2, 4}

\* the counts written in the prefix: few entries, the largest counts whose
\* byte length is a u32, and counts whose byte length is none
ArrayCounts ==
    {0, 1, 2, 3, U32_MAX \div 4, U32_MAX \div 4 + 1, U32_MAX \div 2, U32_MAX}

\* the lengths of the bytes after the prefix
BodyLens == 0..9 \cup {12}

\* a length that is 3 modulo 2^32
LongBody == U32_MAX + 1 + 3

\* the values given to set
SetValues == {0, 258, 65535}

\* the most entries of one array that are set
MaxSet == 3

\* the bytes of a body: the i-th is i modulo 128
Body(len) == [i \in 1..len |-> i % 128]

\* the buffers given to BoundedArray::parse: a count and a body, and buffers
\* too short to hold a count
BoundedInputs ==
    { Encode(c, COUNT_LEN) \o Body(len) : c \in ArrayCounts, len \in BodyLens }
        \cup { Encode(2, COUNT_LEN) \o Body(LongBody) }
        \cup { Body(len) : len \in 0..3 }

\* the buffers given to UnboundedArray::parse
UnboundedInputs == { Body(len) : len \in BodyLens }

ArrayInputs == BoundedInputs \cup UnboundedInputs

ArrayInit ==
    /\ ScannerInit
    /\ cursor = NoCursor
    /\ reader = NoReader
    /\ array \in { Buffer(bytes, size) : bytes \in ArrayInputs, size \in EntrySizes }

\* BoundedArray::<u32, T>::parse(&mut buf)
ArrayParseBounded ==
    /\ UNCHANGED <<scanner, cursor, reader>>
    /\ array.kind = "none"
    /\ array.input \in BoundedInputs
    /\ array' = [array EXCEPT
          !.kind = "bounded",
          !.parsed = BoundedParse(array.input, array.size)]

\* UnboundedArray::<T>::parse(&mut buf)
ArrayParseUnbounded ==
    /\ UNCHANGED <<scanner, cursor, reader>>
    /\ array.kind = "none"
    /\ array.input \in UnboundedInputs
    /\ array' = [array EXCEPT
          !.kind = "unbounded",
          !.parsed = UnboundedParse(array.input, array.size)]

\* entries_mut(), and set(v) on its k-th item
ArraySet ==
    /\ UNCHANGED <<scanner, cursor, reader>>
    /\ array.kind # "none"
    /\ array.parsed.err = "none"
    /\ ~array.emitted
    /\ \E k \in 1..EntryCount(array.parsed.entries, array.size), v \in SetValues :
          /\ k <= MaxSet
          /\ array' = [array EXCEPT
                !.parsed.entries = EntrySet(array.parsed.entries, array.size, k, v),
                !.set = k,
                !.value = v]

\* put_buf(&mut out)
ArrayEmit ==
    /\ UNCHANGED <<scanner, cursor, reader>>
    /\ array.kind # "none"
    /\ array.parsed.err = "none"
    /\ ~array.emitted
    /\ array' = [array EXCEPT
          !.emitted = TRUE,
          !.out = ArrayPutBuf(array.kind, array.parsed.entry_count,
                              array.parsed.entries)]

ArrayNext ==
    \/ ArrayParseBounded
    \/ ArrayParseUnbounded
    \/ ArraySet
    \/ ArrayEmit

ArraySpec == ArrayInit /\ [][ArrayNext]_vars

\* ------------------------------------------------------------ buffered reader
\* the capacity of the BufReader: BoxHeader::MAX_SIZE
MAX_SIZE == 16

\* stream_position that reports the source's position
StreamPosition_OfSource(r) == r.src

\* stream_position: the source's position less the bytes in the buffer,
\* saturating at 0
StreamPosition(r) == IF r.src >= r.buf THEN r.src - r.buf ELSE 0

\* BufSkip that skips the whole amount on the source
BufSkip_WholeAmount(r, amount) ==
    LET buf_len == r.buf
        to == IF amount # 0 THEN SeekSkip(r.src, amount) ELSE r.src
    IN  IF to = None THEN [r EXCEPT !.err = "Io"]
        ELSE [r EXCEPT !.src = to,
                       !.buf = buf_len - (IF buf_len < amount THEN buf_len ELSE amount),
                       !.err = "none"]

\* skip(reader, amount): amount.checked_sub(buf_len) is skipped on the source
\* when it is some non-zero value, then min(buf_len, amount) bytes of the
\* buffer are consumed; an error of the source returns before consume
BufSkip(r, amount) ==
    LET buf_len == r.buf
        skip_amount == IF amount >= buf_len THEN amount - buf_len ELSE None
        to == IF skip_amount # None /\ skip_amount # 0
              THEN SeekSkip(r.src, skip_amount)
              ELSE r.src
    IN  IF to = None THEN [r EXCEPT !.err = "Io"]
        ELSE [r EXCEPT !.src = to,
                       !.buf = buf_len - (IF buf_len < amount THEN buf_len ELSE amount),
                       !.err = "none"]

\* the lengths of the sources
ReaderLens == {0, 9, 40}

\* the numbers of bytes one read of the source may give when left bytes remain
\* and the buffer is empty
ReadSizes(left) ==
    { n \in {1, 8, MAX_SIZE, left} : n <= left /\ n <= MAX_SIZE /\ n > 0 }

\* the amounts skipped with buf_len bytes buffered at the logical position p:
\* less than, as much as and more than the buffer holds, up to u64::MAX and
\* one past it
BufSkipAmounts(buf_len, p) ==
    { n \in {0, 1, buf_len - 1, buf_len, buf_len + 1, buf_len + 8,
             U64_MAX - p, U64_MAX - p + 1} : n >= 0 /\ n <= U64_MAX }

ReaderInit ==
    /\ ScannerInit
    /\ cursor = NoCursor
    /\ array = NoArray
    /\ reader \in { Reader(len) : len \in ReaderLens }

\* the record of a call on r that leaves the reader as to
Called(r, op, amount, to, ret) ==
    [to EXCEPT !.op = op, !.amount = amount, !.from = StreamPosition(r),
               !.held = r.buf, !.ret = ret]

\* fill_buf() on an empty buffer: one read of the source, which gives nothing
\* at or after its end
ReaderFillBuf ==
    /\ UNCHANGED <<scanner, cursor, array>>
    /\ reader.buf = 0
    /\ IF reader.src >= reader.len
       THEN reader' = Called(reader, "fill_buf", 0,
                             [reader EXCEPT !.err = "none"], 0)
       ELSE \E n \in ReadSizes(reader.len - reader.src) :
               reader' = Called(reader, "fill_buf", 0,
                                [reader EXCEPT !.src = reader.src + n,
                                               !.buf = n,
                                               !.err = "none"], n)

\* BoxHeader::read takes n bytes that the buffer holds
ReaderConsume ==
    /\ UNCHANGED <<scanner, cursor, array>>
    /\ \E n \in {1, 8, reader.buf} :
          /\ 0 < n /\ n <= reader.buf
          /\ reader' = Called(reader, "consume", n,
                              [reader EXCEPT !.buf = reader.buf - n,
                                             !.err = "none"], 0)

\* skip(reader, amount)
ReaderSkip ==
    /\ UNCHANGED <<scanner, cursor, array>>
    /\ \E amount \in BufSkipAmounts(reader.buf, StreamPosition(reader)) :
          reader' = Called(reader, "skip", amount, BufSkip(reader, amount), 0)

\* stream_position(reader)
ReaderStreamPosition ==
    /\ UNCHANGED <<scanner, cursor, array>>
    /\ reader' = Called(reader, "stream_position", 0,
                        [reader EXCEPT !.err = "none"], StreamPosition(reader))

ReaderNext ==
    \/ ReaderFillBuf
    \/ ReaderConsume
    \/ ReaderSkip
    \/ ReaderStreamPosition

ReaderSpec == ReaderInit /\ [][ReaderNext]_vars

\* ------------------------------------------------------------ properties
Returned == pc = "done" /\ result.status = "ok"

\* the places <<trak, index>> of the chunk offset entries of a moov
EntryPlaces(m) ==
    UNION { { <<i, j>> : j \in 1..Len(m.traks[i].entries) } :
            i \in 1..Len(m.traks) }

EntryAt(m, p) == m.traks[p[1]].entries[p[2]]

\* what the caller adds to an input offset to find the same byte in the output
Shift(r) == MetaLen(r.meta) - r.data.offset

\* C1: when sanitize succeeds, the emitted moov has the tables of the stored
\* moov, and every entry is the input entry plus metadata.len - data.offset;
\* that shift is zero when padding was emitted or nothing had to move.
C1_UniformShift ==
    Returned =>
        /\ Len(result.meta.moov.traks) = Len(moov.traks)
        /\ \A i \in 1..Len(moov.traks) :
              /\ result.meta.moov.traks[i].kind = moov.traks[i].kind
              /\ Len(result.meta.moov.traks[i].entries) =
                    Len(moov.traks[i].entries)
        /\ \A p \in EntryPlaces(moov) :
              EntryAt(result.meta.moov, p) = EntryAt(moov, p) + Shift(result)
        /\ (result.meta.pad # 0 => Shift(result) = 0)

C1_Witness ==
    /\ Returned
    /\ pass = 1
    /\ Shift(result) < 0
    /\ EntryPlaces(moov) # {}

\* C2: sanitizing the first call's metadata followed by the input's bytes at
\* data succeeds and returns the same metadata.
C2_RoundTrip ==
    (pass = 2 /\ pc # "scan") =>
        /\ pc = "done"
        /\ result.status = "ok"
        /\ result.meta = first.meta

C2_Witness ==
    /\ pass = 2
    /\ pc = "done"
    /\ first.meta.pad # 0
    /\ result.meta = first.meta

\* C3 as claimed: every entry of the output lies in the returned span.
C3_EntriesInDataSpan ==
    Returned =>
        \A p \in EntryPlaces(result.meta.moov) :
            /\ result.data.offset <= EntryAt(result.meta.moov, p)
            /\ EntryAt(result.meta.moov, p) < result.data.offset + result.data.len

InputEntriesInSpan ==
    \A p \in EntryPlaces(moov) :
        /\ data.offset <= EntryAt(moov, p)
        /\ EntryAt(moov, p) < data.offset + data.len

\* C3: when sanitize succeeds on an input whose entries all lie in the
\* payload span, every entry of the output lies in the payload as it stands
\* in the output, from metadata.len to metadata.len + data.len.
C3_EntriesInPayload ==
    (Returned /\ InputEntriesInSpan) =>
        \A p \in EntryPlaces(result.meta.moov) :
            /\ MetaLen(result.meta) <= EntryAt(result.meta.moov, p)
            /\ EntryAt(result.meta.moov, p) < MetaLen(result.meta) + result.data.len

C3_Witness ==
    /\ Returned
    /\ pass = 1
    /\ InputEntriesInSpan
    /\ EntryPlaces(moov) # {}
    /\ Shift(result) > 0

\* the step reads the header of a box
ReadBox == pc = "scan" /\ Len(hist') = Len(hist) + 1

\* the last box whose header was read
LastRead == IF hist = <<>> THEN NoRead ELSE hist[Len(hist)]

Discontiguous == Err("UnsupportedBoxLayout", "discontiguous mdat boxes")

\* the step reads an mdat that does not start where the span ends
ReadsDiscontiguousMdat ==
    /\ ReadBox
    /\ LastRead'.box.type = "mdat"
    /\ data.set
    /\ data.offset + data.len # pos

\* C4 as claimed: such an mdat always fails with "discontiguous mdat boxes".
C4_DiscontiguousAlways ==
    [][ReadsDiscontiguousMdat =>
        /\ pc' = "failed"
        /\ result' = Failure(Discontiguous)]_vars

\* C4: an mdat that does not start where the span ends makes sanitize fail
\* and return no metadata; the error is UnsupportedBoxLayout (discontiguous
\* mdat boxes) when the box's body was skipped, and otherwise the error of
\* the skip: Io for a seek past u64::MAX, TruncatedBox for an end of stream.
C4_Discontiguous ==
    [][ReadsDiscontiguousMdat =>
        /\ pc' = "failed"
        /\ result'.status = "err"
        /\ result'.meta = NoMeta
        /\ result'.err.kind \in {"UnsupportedBoxLayout", "Io", "TruncatedBox"}
        /\ (result'.err.kind = "TruncatedBox") = (LastRead'.box.past = "eof")
        /\ (LastRead'.box.past # "eof" /\ pos + EncodedLen(LastRead'.box) <= U64_MAX)
              => result'.err = Discontiguous]_vars

C4_Witness ==
    /\ pc = "failed"
    /\ result = Failure(Discontiguous)
    /\ LastRead.box.type = "mdat"
    /\ data.set
    /\ data.offset + data.len < LastRead.start

\* the total size of the boxes of the run of mdat and free boxes at h[k]
RECURSIVE RunLen(_, _)
RunLen(h, k) ==
    IF k > Len(h) \/ h[k].box.type \notin {"mdat", "free"} THEN 0
    ELSE EncodedLen(h[k].box) + RunLen(h, k + 1)

MdatPlaces(h) == { k \in 1..Len(h) : h[k].box.type = "mdat" }

FirstMdat(h) == CHOOSE k \in MdatPlaces(h) : \A j \in MdatPlaces(h) : k <= j

\* C5: while the scan has not failed, the span is absent until an mdat is
\* read; then it starts at the first mdat and its length is the sum of the
\* total sizes of that mdat and of the mdat and free boxes that follow it
\* without a gap; free boxes elsewhere leave it alone.  The span returned is
\* that span.
C5_SingleSpan ==
    /\ pc # "failed" =>
          IF MdatPlaces(hist) = {} THEN ~data.set
          ELSE data = Span(hist[FirstMdat(hist)].start,
                           RunLen(hist, FirstMdat(hist)))
    /\ Returned => result.data = data

C5_Witness ==
    /\ pc = "scan"
    /\ data.set
    /\ \E k \in 1..Len(hist) :
          /\ hist[k].box.type = "free"
          /\ hist[k].start < data.offset
    /\ \E k \in 1..Len(hist) :
          /\ hist[k].box.type = "free"
          /\ hist[k].start > data.offset
          /\ hist[k].start < data.offset + data.len
          /\ data.len = RunLen(hist, k - 1)

NotFirst == Err("InvalidBoxLayout", "ftyp is not the first significant box")

\* C6 as claimed: before an ftyp is stored, only boxes other than ftyp, mdat,
\* free and moov fail with "ftyp is not the first significant box".
C6_OnlyUnknownTypes ==
    [][(ReadBox /\ ftyp.type = "none") =>
        /\ LastRead'.box.type \notin {"ftyp", "mdat", "free", "moov"}
              => (pc' = "failed" /\ result' = Failure(NotFirst))
        /\ LastRead'.box.type \in {"mdat", "free", "moov"}
              => result'.err # NotFirst]_vars

\* C6: before an ftyp is stored, every box that is neither an ftyp nor a free
\* box (an mdat and a moov too) makes sanitize fail with InvalidBoxLayout
\* ("ftyp is not the first significant box"); a free box is skipped without
\* that error and creates no span.
C6_FtypFirst ==
    [][(ReadBox /\ ftyp.type = "none") =>
        /\ LastRead'.box.type \notin {"ftyp", "free"}
              => (pc' = "failed" /\ result' = Failure(NotFirst))
        /\ LastRead'.box.type = "free"
              => (result'.err # NotFirst /\ ~data'.set /\ moov' = moov)]_vars

C6_Witness ==
    /\ pc = "failed"
    /\ result = Failure(NotFirst)
    /\ LastRead.box.type = "moov"
    /\ Len(hist) > 1

\* C7: a second ftyp makes sanitize fail with InvalidBoxLayout carrying
\* MultipleBoxes(ftyp), whatever its body holds, and within one call a stored
\* ftyp is never replaced.
C7_SecondFtyp ==
    [][/\ (ReadBox /\ LastRead'.box.type = "ftyp" /\ ftyp.type # "none")
            => /\ pc' = "failed"
               /\ result' = Failure(Err("InvalidBoxLayout", "MultipleBoxes(ftyp)"))
       /\ (ftyp.type # "none" /\ pass' = pass) => ftyp' = ftyp]_vars

C7_Witness ==
    /\ pc = "failed"
    /\ result.err.detail = "MultipleBoxes(ftyp)"
    /\ ~LastRead.box.ok
    /\ ftyp.ok
    /\ Len(hist) > 2

\* the step reads a box of an unsupported type after an ftyp was stored
ReadsOther ==
    /\ ReadBox
    /\ LastRead'.box.type \notin {"ftyp", "moov", "mdat", "free"}
    /\ ftyp.type # "none"

\* C8 as claimed: such a box always fails with UnsupportedBox(its type).
C8_UnsupportedAlways ==
    [][ReadsOther =>
        /\ pc' = "failed"
        /\ result' = Failure(Err("UnsupportedBox", LastRead'.box.type))]_vars

\* C8: a box of another type read after an ftyp was stored makes sanitize
\* fail and return no metadata: with UnsupportedBox carrying that type when
\* the box's body was skipped, and otherwise with the error of the skip (Io
\* for a seek past u64::MAX, TruncatedBox for an end of stream).
C8_Unsupported ==
    [][ReadsOther =>
        /\ pc' = "failed"
        /\ result'.status = "err"
        /\ result'.meta = NoMeta
        /\ result'.err.kind =
              IF LastRead'.box.past = "eof" THEN "TruncatedBox"
              ELSE IF pos + EncodedLen(LastRead'.box) > U64_MAX THEN "Io"
              ELSE "UnsupportedBox"
        /\ result'.err.kind = "UnsupportedBox"
              => result'.err.detail = LastRead'.box.type]_vars

C8_Witness ==
    /\ pc = "failed"
    /\ result.err.kind = "Io"
    /\ LastRead.box.type = "skip"
    /\ LastRead.hadFtyp

Brands(f) == { f.brands[i] : i \in 1..Len(f.brands) }

\* C9: when the loop ends, sanitize fails with MissingRequiredBox(ftyp) if no
\* ftyp is stored; with a compatible ftyp, MissingRequiredBox(moov) if no
\* moov is stored; with both, MissingRequiredBox(mdat) if there is no span;
\* and it succeeds only with all three.
C9_CheckOrder ==
    pc = "done" =>
        /\ ftyp.type = "none"
              => result = Failure(Err("MissingRequiredBox", "ftyp"))
        /\ (ftyp.type # "none" /\ "isom" \in Brands(ftyp) /\ moov.type = "none")
              => result = Failure(Err("MissingRequiredBox", "moov"))
        /\ (ftyp.type # "none" /\ "isom" \in Brands(ftyp) /\ moov.type # "none"
                /\ ~data.set)
              => result = Failure(Err("MissingRequiredBox", "mdat"))
        /\ result.status = "ok"
              => (ftyp.type = "ftyp" /\ moov.type = "moov" /\ data.set)

C9_Witness ==
    /\ pc = "done"
    /\ ftyp.type # "none"
    /\ "isom" \in Brands(ftyp)
    /\ moov.type = "none"
    /\ ~data.set
    /\ result = Failure(Err("MissingRequiredBox", "moov"))

\* C10: when the loop ends with a stored ftyp whose compatible_brands lack
\* "isom", sanitize fails with UnsupportedFormat carrying its major_brand; a
\* success has "isom" among them, and its metadata begins with that ftyp.
C10_CompatibleBrand ==
    pc = "done" =>
        /\ (ftyp.type # "none" /\ "isom" \notin Brands(ftyp))
              => result = Failure(Err("UnsupportedFormat", ftyp.major))
        /\ result.status = "ok" =>
              /\ "isom" \in Brands(ftyp)
              /\ LET head == MetadataBoxes(result.meta)[1]
                 IN  /\ head.type = "ftyp"
                     /\ head.major = ftyp.major
                     /\ head.brands = ftyp.brands
                     /\ head.body = ftyp.body

C10_Witness ==
    /\ pc = "done"
    /\ ftyp.type # "none"
    /\ "isom" \notin Brands(ftyp)
    /\ moov.type # "none"
    /\ data.set
    /\ result.err.kind = "UnsupportedFormat"

\* the encoded length of a stored box once its header carries an explicit size
ExplicitLen(b) == (IF 8 + b.body <= U32_MAX THEN 8 ELSE 16) + b.body

\* the length of the stored ftyp and moov as they are emitted
StoredLen == ExplicitLen(ftyp) + ExplicitLen(moov)

\* payload.offset - metadata_len
Gap == data.offset - StoredLen

\* C11: when sanitize succeeds with the payload 8 to u32::MAX - 8 bytes past
\* the end of ftyp + moov, the metadata is the ftyp, the moov and exactly one
\* free box whose total size is that gap (an 8-byte header with a 32-bit data
\* size of gap - 8), so that metadata.len = data.offset, and the span returned
\* is the span of the input.
C11_Padding ==
    (Returned /\ Gap >= 8 /\ Gap <= U32_MAX - 8) =>
        LET boxes == MetadataBoxes(result.meta)
        IN  /\ Len(boxes) = 3
            /\ boxes[1].type = "ftyp"
            /\ boxes[2].type = "moov"
            /\ boxes[3].type = "free"
            /\ boxes[3].enc = "u32"
            /\ boxes[3].body = Gap - 8
            /\ EncodedLen(boxes[3]) = Gap
            /\ EncodedLen(boxes[1]) + EncodedLen(boxes[2]) = StoredLen
            /\ MetaLen(result.meta) = data.offset
            /\ result.data = data

C11_Witness ==
    /\ Returned
    /\ pass = 1
    /\ Gap = 8
    /\ result.meta.pad = 8
    /\ MetadataBoxes(result.meta)[3].body = 0

\* C12: when sanitize succeeds and the payload starts where ftyp + moov end,
\* or 8 to u32::MAX - 8 bytes later, the emitted moov has the chunk offset
\* tables of the stored moov, unmodified; when it starts where they end, the
\* metadata is the ftyp followed by the moov and nothing else.
C12_NoRewrite ==
    (Returned /\ (Gap = 0 \/ (Gap >= 8 /\ Gap <= U32_MAX - 8))) =>
        LET boxes == MetadataBoxes(result.meta)
        IN  /\ boxes[2].traks = moov.traks
            /\ Gap = 0 =>
                  /\ Len(boxes) = 2
                  /\ result.meta.pad = 0
                  /\ MetaLen(result.meta) = StoredLen
                  /\ boxes[1].type = "ftyp"
                  /\ boxes[1].body = ftyp.body
                  /\ boxes[1].major = ftyp.major
                  /\ boxes[1].brands = ftyp.brands
                  /\ boxes[2].type = "moov"
                  /\ boxes[2].body = moov.body

C12_Witness ==
    /\ Returned
    /\ pass = 1
    /\ Gap = 0
    /\ moov.enc = "eof"
    /\ EntryPlaces(moov) # {}
    /\ result.meta.moov.traks = moov.traks

\* the loop has ended and the three checks after it have passed
Planned ==
    /\ pc = "done"
    /\ ftyp.type = "ftyp"
    /\ "isom" \in Brands(ftyp)
    /\ moov.type = "moov"
    /\ data.set

\* neither the Some(0) arm nor the padding arm matches
Displaces == Gap < 0 \/ (Gap > 0 /\ Gap < 8) \/ Gap > U32_MAX - 8

\* metadata_len - payload.offset is a value of an i32
FitsI32 == 0 - Gap <= I32_MAX /\ 0 - Gap >= 0 - I32_MAX - 1

TooFar == Err("UnsupportedBoxLayout", "mdat displaced too far")

\* C13: when the chunk offsets have to be displaced and metadata_len -
\* payload.offset is not a value of an i32, sanitize fails with
\* UnsupportedBoxLayout (mdat displaced too far) and returns no metadata,
\* also when a rewritten entry would have been out of range; that error is
\* returned in no other case.
C13_DisplacedTooFar ==
    /\ (Planned /\ Displaces /\ ~FitsI32) => result = Failure(TooFar)
    /\ result.err = TooFar =>
          (Planned /\ Displaces /\ ~FitsI32 /\ result.meta = NoMeta)

C13_Witness ==
    /\ Planned
    /\ Displaces
    /\ ~FitsI32
    /\ result = Failure(TooFar)
    /\ \E p \in EntryPlaces(moov) : EntryAt(moov, p) - Gap < 0

NotWithin == Err("InvalidInput", "chunk offset not within mdat")

\* the entry at p of the stored moov, displaced, is not a value of its table
OutOfRange(p) ==
    \/ EntryAt(moov, p) - Gap < 0
    \/ EntryAt(moov, p) - Gap > (IF moov.traks[p[1]].kind = "co64"
                                 THEN U64_MAX ELSE U32_MAX)

\* C14: when the chunk offsets are displaced by a value of an i32 and some
\* entry plus the displacement is negative or exceeds the width of its table
\* (u32 for stco, u64 for co64), sanitize fails with InvalidInput (chunk
\* offset not within mdat) and returns no metadata; otherwise it succeeds with
\* every entry displaced.  No entry of a returned table is outside the width
\* of its table.
C14_CheckedRewrite ==
    /\ (Planned /\ Displaces /\ FitsI32) =>
          IF \E p \in EntryPlaces(moov) : OutOfRange(p)
          THEN result = Failure(NotWithin)
          ELSE /\ result.status = "ok"
               /\ \A p \in EntryPlaces(moov) :
                     EntryAt(result.meta.moov, p) = EntryAt(moov, p) - Gap
    /\ result.err = NotWithin => (Planned /\ Displaces /\ result.meta = NoMeta)
    /\ Returned =>
          \A i \in 1..Len(result.meta.moov.traks) :
              \A j \in 1..Len(result.meta.moov.traks[i].entries) :
                  /\ result.meta.moov.traks[i].entries[j] >= 0
                  /\ result.meta.moov.traks[i].entries[j] <=
                        (IF result.meta.moov.traks[i].kind = "co64"
                         THEN U64_MAX ELSE U32_MAX)

C14_Witness ==
    /\ Planned
    /\ result = Failure(NotWithin)
    /\ Gap < 0
    /\ \E p \in EntryPlaces(moov) :
          /\ moov.traks[p[1]].kind = "co64"
          /\ EntryAt(moov, p) - Gap > U64_MAX
    /\ \E p \in EntryPlaces(moov) : ~OutOfRange(p)

\* C15: in every successful output the headers of the ftyp and of the moov
\* carry an explicit size, of 32 bits when the box fits in one, over the body
\* that was stored, whatever the encoding they were read with; the metadata's
\* length is the sum of those sizes and of the padding.
C15_ExplicitSizes ==
    Returned =>
        LET boxes == MetadataBoxes(result.meta)
        IN  /\ \A k \in 1..2 :
                  /\ boxes[k].enc \in {"u32", "ext"}
                  /\ (boxes[k].enc = "u32") = (8 + boxes[k].body <= U32_MAX)
            /\ boxes[1].body = ftyp.body
            /\ boxes[2].body = moov.body
            /\ MetaLen(result.meta) =
                  ExplicitLen(ftyp) + ExplicitLen(moov) + result.meta.pad

C15_Witness ==
    /\ Returned
    /\ pass = 1
    /\ moov.enc = "eof"
    /\ result.meta.moov.enc = "u32"
    /\ result.meta.pad = 0
    /\ Gap # 0

\* the last box read is an until-EOF mdat or free box that was skipped
SkippedToEof ==
    /\ pc # "failed"
    /\ LastRead.box.enc = "eof"
    /\ LastRead.box.type \in {"mdat", "free"}

\* the length of the stream whose last box is the until-EOF box last read: an
\* 8-byte header and the bytes after it
TailEnd == LastRead.start + 8 + LastRead.box.body

\* the span as it was before the last box was read
SpanBefore(h, k) ==
    IF MdatPlaces(SubSeq(h, 1, k)) = {} THEN NoSpan
    ELSE Span(h[FirstMdat(h)].start, RunLen(SubSeq(h, 1, k), FirstMdat(h)))

\* C16: after an until-EOF mdat or free box is skipped, the body size that
\* was skipped is the stream length minus the position after the header: the
\* reader stands at the end of the stream and no further box is read.  For an
\* mdat the span then starts at or before the box's header and ends at the
\* end of the stream; a free box extends a span that reaches it to the end of
\* the stream and leaves any other span as it was.
C16_UntilEof ==
    SkippedToEof =>
        /\ pos = TailEnd
        /\ Offered = {}
        /\ LastRead.box.type = "mdat" =>
              /\ data.set
              /\ data.offset <= LastRead.start
              /\ data.offset + data.len = TailEnd
        /\ LastRead.box.type = "free" =>
              LET before == SpanBefore(hist, Len(hist) - 1)
              IN  IF before.set /\ before.offset + before.len = LastRead.start
                  THEN data = Span(before.offset, TailEnd - before.offset)
                  ELSE data = before

C16_Witness ==
    /\ SkippedToEof
    /\ pass = 1
    /\ LastRead.box.type = "mdat"
    /\ LastRead.box.body > 0
    /\ data.offset < LastRead.start
    /\ data.offset + data.len = TailEnd
    /\ Returned

\* the last box read is an mdat that the mdat arm took, and it starts where
\* the span before it ends, if there is one
ContiguousMdat ==
    /\ LastRead.box.type = "mdat"
    /\ LastRead.hadFtyp
    /\ LET before == SpanBefore(hist, Len(hist) - 1)
       IN  ~before.set \/ before.offset + before.len = LastRead.start

\* where the last box read ends by the size its header declares
DeclaredEnd == LastRead.start + EncodedLen(LastRead.box)

\* C17: an mdat that ends exactly at u64::MAX is accepted and the span then
\* ends at u64::MAX; an mdat whose start plus declared size exceeds u64::MAX
\* makes sanitize fail; and no position, size or span length wraps: the
\* position and the end of the span never exceed u64::MAX and the span's
\* length is the true sum of the sizes of its boxes.
C17_OverflowThreshold ==
    /\ (ContiguousMdat /\ LastRead.box.past # "eof" /\ DeclaredEnd = U64_MAX) =>
          /\ pc # "failed"
          /\ data.set
          /\ data.offset + data.len = U64_MAX
          /\ pos = U64_MAX
    /\ (LastRead.box.type = "mdat" /\ LastRead.hadFtyp /\ DeclaredEnd > U64_MAX) =>
          /\ pc = "failed"
          /\ result.status = "err"
          /\ result.meta = NoMeta
    /\ pos >= 0
    /\ pos <= U64_MAX
    /\ data.set =>
          /\ data.offset + data.len <= U64_MAX
          /\ data.offset + data.len <= pos
    /\ (data.set /\ pc # "failed") =>
          data.len = RunLen(hist, FirstMdat(hist))

C17_Witness ==
    /\ Returned
    /\ pass = 1
    /\ ContiguousMdat
    /\ LastRead.box.enc = "ext"
    /\ result.data.offset + result.data.len = U64_MAX
    /\ result.data.offset > 0

\* an input one byte longer than that of C17_Witness
C17_WitnessOver ==
    /\ pc = "failed"
    /\ LastRead.box.type = "mdat"
    /\ LastRead.hadFtyp
    /\ DeclaredEnd = U64_MAX + 1

\* C18: when sanitize succeeds, metadata.len + data.len is at most u64::MAX,
\* whether the payload stays in place or is displaced backward or forward.
C18_OutputFits ==
    Returned => MetaLen(result.meta) + result.data.len <= U64_MAX

C18_Witness ==
    /\ Returned
    /\ pass = 1
    /\ Gap < 0
    /\ MetaLen(result.meta) + result.data.len = U64_MAX

\* the input of test::mdat_before_moov has been scanned to its end: a 20-byte
\* ftyp, an mdat, and a moov whose only stco entry is the start of the mdat
MdatBeforeMoov ==
    /\ pass = 1
    /\ pc = "done"
    /\ Len(hist) = 3
    /\ hist[1].box.type = "ftyp"
    /\ EncodedLen(hist[1].box) = 20
    /\ "isom" \in Brands(hist[1].box)
    /\ hist[2].box.type = "mdat"
    /\ hist[3].box.type = "moov"
    /\ hist[3].box.traks = <<Stco(<<hist[2].start>>)>>

\* C19 as claimed: for that input the span returned starts at metadata_len,
\* and so does the stco entry.
C19_SpanAtMetadataLen ==
    MdatBeforeMoov =>
        /\ result.status = "ok"
        /\ result.data.offset = MetaLen(result.meta)
        /\ result.meta.moov.traks[1].entries[1] = MetaLen(result.meta)

\* C19: for that input sanitize succeeds; the span returned is the mdat box
\* where it stands in the input (offset 20), the metadata is the ftyp and the
\* moov without padding, and the stco entry is metadata_len.
C19_MdatBeforeMoov ==
    MdatBeforeMoov =>
        /\ result.status = "ok"
        /\ result.data = Span(20, EncodedLen(hist[2].box))
        /\ result.meta.pad = 0
        /\ MetaLen(result.meta) = 20 + ExplicitLen(hist[3].box)
        /\ result.meta.moov.traks[1].entries[1] = MetaLen(result.meta)

C19_Witness ==
    /\ MdatBeforeMoov
    /\ result.status = "ok"
    /\ hist[2].box.enc = "u32"
    /\ result.data.offset = 20
    /\ MetaLen(result.meta) = 80
    /\ result.meta.moov.traks[1].entries[1] = 80

\* the places in the history of the moov boxes the moov arm took
MoovPlaces(h) == { k \in 1..Len(h) : h[k].box.type = "moov" /\ h[k].hadFtyp }

LastMoov(h) == CHOOSE k \in MoovPlaces(h) : \A j \in MoovPlaces(h) : j <= k

\* C20: a moov box read while a moov is stored raises no error of its own:
\* while the scan has not failed the stored moov is the last moov read, and a
\* success emits that moov: its body length gives metadata_len and its
\* tables, displaced, are the tables of the output.
C20_LastMoovWins ==
    /\ (pc # "failed" /\ MoovPlaces(hist) # {}) =>
          moov = hist[LastMoov(hist)].box
    /\ (pc # "failed" /\ MoovPlaces(hist) = {}) => moov = NoBox
    /\ (Returned /\ MoovPlaces(hist) # {}) =>
          LET last == hist[LastMoov(hist)].box
          IN  /\ result.meta.moov.body = last.body
              /\ MetaLen(result.meta) =
                    ExplicitLen(ftyp) + ExplicitLen(last) + result.meta.pad
              /\ \A p \in EntryPlaces(last) :
                    EntryAt(result.meta.moov, p) =
                        EntryAt(last, p) + Shift(result)
              /\ EntryPlaces(result.meta.moov) = EntryPlaces(last)

C20_Witness ==
    /\ Returned
    /\ pass = 1
    /\ Cardinality(MoovPlaces(hist)) = 2
    /\ \E k \in MoovPlaces(hist) :
          /\ k # LastMoov(hist)
          /\ hist[k].box.body # hist[LastMoov(hist)].box.body
          /\ hist[k].box.traks # hist[LastMoov(hist)].box.traks
    /\ Shift(result) # 0

\* C21: once the checks after the loop have passed, a forward displacement
\* (metadata_len > payload.offset) is at most the length of the emitted ftyp
\* and moov, which MAX_READ_BOX_SIZE keeps within an i32, and never fails as
\* displaced too far; that error is returned only for a backward gap above
\* u32::MAX - 8; and a success that displaced the chunk offsets backward did
\* so by 1 to 7.
C21_DisplacementBounds ==
    Planned =>
        /\ Gap < 0 =>
              /\ 0 - Gap <= StoredLen
              /\ StoredLen <= 2 * (MAX_READ_BOX_SIZE + 16)
              /\ 0 - Gap <= I32_MAX
              /\ result.err # TooFar
        /\ result.err = TooFar => Gap > U32_MAX - 8
        /\ (result.status = "ok" /\ result.meta.pad = 0 /\ Gap > 0) =>
              /\ Gap \in 1..7
              /\ \A p \in EntryPlaces(moov) :
                    EntryAt(result.meta.moov, p) = EntryAt(moov, p) - Gap

C21_Witness ==
    /\ Planned
    /\ pass = 1
    /\ result.status = "ok"
    /\ result.meta.pad = 0
    /\ Gap = 7
    /\ EntryPlaces(moov) # {}

\* the last call on the cursor was a skip whose target is past u64::MAX
SkipOverflows ==
    /\ cursor.op = "skip"
    /\ cursor.from + cursor.amount > U64_MAX

\* a skip advanced by its amount with the seek its amount calls for, and
\* stream_len and stream_position return the length and the position and
\* leave the cursor where it was
SkipAdvances ==
    /\ (cursor.op = "skip" /\ cursor.err = "none") =>
          /\ cursor.pos = cursor.from + cursor.amount
          /\ cursor.seek = (IF cursor.amount = 0 THEN "none"
                            ELSE IF cursor.amount < 2^(W64 - 1) THEN "current"
                            ELSE "start")
    /\ (cursor.op = "skip" /\ ~SkipOverflows) => cursor.err = "none"
    /\ cursor.op = "stream_len" =>
          (cursor.ret = cursor.len /\ cursor.pos = cursor.from)
    /\ cursor.op = "stream_position" =>
          (cursor.ret = cursor.pos /\ cursor.pos = cursor.from)
    /\ cursor.pos >= 0
    /\ cursor.pos <= U64_MAX

\* C22 as claimed: every skip whose target is past u64::MAX returns
\* InvalidData and leaves the cursor where it was.
C22_OverflowIsInvalidData ==
    /\ SkipAdvances
    /\ SkipOverflows => (cursor.err = "InvalidData" /\ cursor.pos = cursor.from)

\* C22: a skip that succeeds advances the cursor by exactly its amount (no
\* seek for 0, a relative seek up to i64::MAX, an absolute seek above); a skip
\* whose target is past u64::MAX fails and leaves the cursor where it was,
\* with InvalidData when the amount is above i64::MAX and with the error of
\* the relative seek otherwise; stream_len returns the length and leaves the
\* cursor where it was.
C22_SkipAdaptor ==
    /\ SkipAdvances
    /\ SkipOverflows =>
          /\ cursor.pos = cursor.from
          /\ cursor.err = (IF cursor.amount > I64_MAX THEN "InvalidData"
                           ELSE "Seek")

C22_Witness ==
    /\ SkipOverflows
    /\ cursor.amount = U64_MAX - cursor.from + 1
    /\ cursor.amount > I64_MAX
    /\ cursor.from > 0
    /\ cursor.err = "InvalidData"

\* the count in the prefix of the input, the bytes its entries take, and the
\* bytes that follow the prefix
InputCount == Decode(SubSeq(array.input, 1, COUNT_LEN))

InputNeed == array.size * InputCount

InputBody == Len(array.input) - COUNT_LEN

\* C23 as claimed: BoundedArray::parse of a buffer that holds a count fails
\* with InvalidInput when count x sizeof(T) is no u32, fails when fewer bytes
\* than that follow the count, and otherwise takes exactly that many bytes:
\* the array holds count entries and its encoded length is 4 + count x
\* sizeof(T).
C23_BoundedParse ==
    (array.kind = "bounded" /\ Len(array.input) >= 4) =>
        /\ InputNeed > U32_MAX => array.parsed.err = "InvalidInput"
        /\ (InputNeed <= U32_MAX /\ InputBody < InputNeed) =>
              array.parsed.err # "none"
        /\ (InputNeed <= U32_MAX /\ InputBody >= InputNeed) =>
              /\ array.parsed.err = "none"
              /\ Len(array.parsed.entries) = InputNeed
              /\ Len(array.parsed.rest) = InputBody - InputNeed
              /\ Len(array.parsed.entries) \div array.size = InputCount
              /\ array.parsed.entry_count = InputCount
              /\ array.emitted => Len(array.out) = COUNT_LEN + InputNeed

\* C24 as claimed: UnboundedArray::parse takes every byte of the buffer when
\* their number is a multiple of sizeof(T), and fails with InvalidInput when
\* it is not.
C24_UnboundedParse ==
    array.kind = "unbounded" =>
        IF Len(array.input) % array.size = 0
        THEN /\ array.parsed.err = "none"
             /\ Len(array.parsed.entries) = Len(array.input)
             /\ array.parsed.rest = <<>>
        ELSE array.parsed.err = "InvalidInput"

\* a step that calls set on an entry of a parsed array
SetStep ==
    /\ array.kind # "none"
    /\ array'.kind = array.kind
    /\ ~array.emitted
    /\ ~array'.emitted

\* a step that emits a parsed array
EmitStep == ~array.emitted /\ array'.emitted

\* the bytes of the k-th entry of an array of entries of the given size
BackingBytes(size, k) == ((k - 1) * size + 1)..(k * size)

Starts == [i \in 1..Len(hist) |-> hist[i].start]

\* C26: every turn of the scan loop that returns no error moves the logical
\* position forward by at least the 8 bytes of a box header and never past
\* the largest position, so no header is read twice at one position, and a
\* call that is scanning a finite stream eventually returns.
C26_Terminates ==
    /\ [](/\ \A i \in 1..(Len(hist) - 1) :
                Starts[i + 1] >= Starts[i] + HdrLen("u32")
          /\ (pc = "scan" /\ hist # <<>>) =>
                pos >= Starts[Len(hist)] + HdrLen("u32")
          /\ pos <= U64_MAX)
    /\ (pc = "scan" ~> pc # "scan")

\* the loop has read four headers, the last after skipping a box without a
\* body, and has returned
C26_Witness ==
    /\ pc = "done"
    /\ pass = 1
    /\ Len(hist) = 4
    /\ Starts[4] = Starts[3] + HdrLen("u32")
    /\ hist[3].box.type \in {"free", "mdat"}

\* a step of one call: the scan goes on, fails or finishes
SameCall == pass' = pass

\* C27: in one call, a payload span that exists keeps its offset and never
\* gets shorter, an ftyp that is stored is never replaced, and the span
\* always ends at or before the logical position of the reader.
C27_SpanAndFtypStable ==
    /\ [](data.set => data.offset + data.len <= pos)
    /\ [][SameCall =>
            /\ data.set =>
                  /\ data'.set
                  /\ data'.offset = data.offset
                  /\ data'.len >= data.len
            /\ ftyp.type # "none" => ftyp' = ftyp
         ]_vars

\* a span that did not start at the first box has grown over a second mdat
\* and the scan has gone on past a further box, with the ftyp stored
C27_Witness ==
    /\ pc = "scan"
    /\ pass = 1
    /\ Len(hist) = 4
    /\ data.set
    /\ data.offset > 0
    /\ data.len > EncodedLen(hist[2].box)
    /\ data.offset + data.len < pos
    /\ ftyp.type # "none"

\* the last call was a skip that returned Ok
Skipped == reader.op = "skip" /\ reader.err = "none"

\* C28: the logical position that stream_position gives is the source's
\* position less the bytes in the buffer, and a skip of amount that returns
\* Ok leaves the logical position amount further: an amount within the
\* buffer only consumes buffered bytes, a larger one empties the buffer and
\* skips the rest on the source.
C28_PositionAccounting ==
    /\ StreamPosition(reader) = reader.src - reader.buf
    /\ reader.op = "stream_position" => reader.ret = reader.src - reader.buf
    /\ Skipped =>
          /\ StreamPosition(reader) = reader.from + reader.amount
          /\ reader.amount <= reader.held =>
                /\ reader.buf = reader.held - reader.amount
                /\ reader.src = reader.from + reader.held
          /\ reader.amount > reader.held =>
                /\ reader.buf = 0
                /\ reader.src = reader.from + reader.held
                                   + (reader.amount - reader.held)

\* a skip of more than the bytes buffered, with bytes buffered, returned Ok
C28_Witness ==
    /\ Skipped
    /\ reader.held > 0
    /\ reader.amount > reader.held
    /\ reader.from > 0

\* a skip of fewer bytes than buffered returned Ok
C28_WitnessLess == Skipped /\ 0 < reader.amount /\ reader.amount < reader.held

\* a skip of exactly the bytes buffered returned Ok
C28_WitnessEqual == Skipped /\ 0 < reader.amount /\ reader.amount = reader.held

====
